---- MODULE Spec2Model ----
(***************************************************************************)
(* Excise Boring Bits (ebb): model of src/ebb.c.                           *)
(*                                                                         *)
(* Four specifications share the variables below:                          *)
(*   Spec     one run of excise_boring_bits(): splash injection, the       *)
(*            packet loop with its retain/drop decision, the final report  *)
(*   SpecDiff one call of frames_differ() on a pair of frames              *)
(*   SpecNbr  one call of neighbourhoods_differ() on a 2x2 block           *)
(*   SpecTimes one call of get_times() on two frame indices                *)
(***************************************************************************)
EXTENDS Integers, Sequences, FiniteSets, TLC

VARIABLES
    pc,         \* position of the program
    options,    \* the global options struct: border, slack, splash, splash_path
    fps,        \* vs->avg_frame_rate: [num, den]
    width,      \* dec_ctx->width
    height,     \* dec_ctx->height
    slack,      \* const int slack: slack threshold in frames
    frames,     \* int frames: source frames processed
    out_frames, \* int out_frames: next output index
    skip,       \* int skip: consecutive frames classified "same"
    frame_prev, \* pixels of the buffer frame_prev points to
    frame_curr, \* pixels of the buffer frame_curr points to
    i,          \* loop counter of dump_splash
    res,        \* bool res: return value of excise_boring_bits
    alloc,      \* the heap objects of the run: the three AVFrames and the
                \* pixel buffers frame_curr and frame_prev point to
    packets,    \* number of packets av_read_frame has delivered
    stop,       \* why the packet loop ended: "eof", "error", or the call in
                \* which the process died
    files,      \* the output sink: created files, in creation order
    report,     \* the LOG lines about splash, skip ranges and totals, in order
    trace,      \* per processed source frame: differs, written, image, and
                \* out, the value of out_frames after it
    x,          \* byte offset argument of neighbourhoods_differ (SpecNbr)
    ret,        \* return value of the function under test (SpecDiff, SpecNbr)
    blocks,     \* number of 2x2 blocks frames_differ examined
    reads,      \* <<row, column>> of every pixel frames_differ read
    t_f1,       \* argument f1 of get_times (SpecTimes)
    t_f2,       \* argument f2 of get_times (SpecTimes)
    times       \* what get_times stored through its six pointers

vars == <<pc, options, fps, width, height, slack, frames, out_frames, skip,
          frame_prev, frame_curr, i, res, alloc, packets, stop, files, report,
          trace, x, ret, blocks, reads, t_f1, t_f2, times>>

\* ---------------------------------------------------------------- bounds
MaxDim == 8         \* largest frame width and height tried in SpecDiff
MaxBorder == 2      \* largest border tried in SpecDiff
MaxPackets == 5     \* packets read in one run of Spec

\* ------------------------------------------------------------- constants
SECOND_IN_CS == 100
PIXEL_TOLERANCE == (255 * 3) \div 10

\* ------------------------------------------------------------ arithmetic
abs(n) == IF n < 0 THEN -n ELSE n

\* C integer division: truncates toward zero
CDiv(a, b) ==
    IF (a >= 0) = (b > 0) THEN abs(a) \div abs(b) ELSE -(abs(a) \div abs(b))

Min(a, b) == IF a <= b THEN a ELSE b

\* ---------------------------------------------------------------- frames
\* An RGB24 frame is a function row -> column -> <<r, g, b>>.
Black == <<0, 0, 0>>
White == <<255, 255, 255>>
AtTol == <<PIXEL_TOLERANCE, 0, 0>>          \* differs from Black by exactly 76
OverTol == <<PIXEL_TOLERANCE + 1, 0, 0>>    \* differs from Black by 77

\* Contents of a buffer that av_malloc returned and nothing wrote yet.
Uninit == <<>>

Blank(w, h) == [r \in 0..(h - 1) |-> [c \in 0..(w - 1) |-> Black]]

\* A black frame with the rectangle r0..r1 x c0..c1 painted v.
Patch(w, h, r0, r1, c0, c1, v) ==
    [r \in 0..(h - 1) |-> [c \in 0..(w - 1) |->
        IF r0 <= r /\ r <= r1 /\ c0 <= c /\ c <= c1 THEN v ELSE Black]]

\* A row pointer (prev_t, prev_n, curr_t, curr_n) is <<frame, row index>>.
\* Reading the three bytes at ptr + xb gives the pixel in column xb / 3.
InFrame(f, r, c) == r \in DOMAIN f /\ c \in DOMAIN f[r]

PixelAt(ptr, xb) ==
    IF InFrame(ptr[1], ptr[2], xb \div 3) THEN ptr[1][ptr[2]][xb \div 3]
    ELSE Black

\* ------------------------------------------------- the pixel comparators
pixel_difference(prev, curr) ==
    abs(prev[1] - curr[1]) + abs(prev[2] - curr[2]) + abs(prev[3] - curr[3])

\* neighbourhoods_differ with the threshold its comment describes
\* ("three of the pixels had a difference")
neighbourhoods_differ_three(prev_t, prev_n, curr_t, curr_n, xb) ==
    LET tl == pixel_difference(PixelAt(prev_t, xb), PixelAt(curr_t, xb))
        tr == pixel_difference(PixelAt(prev_t, xb + 3), PixelAt(curr_t, xb + 3))
        bl == pixel_difference(PixelAt(prev_n, xb), PixelAt(curr_n, xb))
        br == pixel_difference(PixelAt(prev_n, xb + 3), PixelAt(curr_n, xb + 3))
        different == (IF tl > PIXEL_TOLERANCE THEN 1 ELSE 0)
                   + (IF tr > PIXEL_TOLERANCE THEN 1 ELSE 0)
                   + (IF bl > PIXEL_TOLERANCE THEN 1 ELSE 0)
                   + (IF br > PIXEL_TOLERANCE THEN 1 ELSE 0)
    IN  different >= 3

neighbourhoods_differ(prev_t, prev_n, curr_t, curr_n, xb) ==
    LET tl == pixel_difference(PixelAt(prev_t, xb), PixelAt(curr_t, xb))
        tr == pixel_difference(PixelAt(prev_t, xb + 3), PixelAt(curr_t, xb + 3))
        bl == pixel_difference(PixelAt(prev_n, xb), PixelAt(curr_n, xb))
        br == pixel_difference(PixelAt(prev_n, xb + 3), PixelAt(curr_n, xb + 3))
        different == (IF tl > PIXEL_TOLERANCE THEN 1 ELSE 0)
                   + (IF tr > PIXEL_TOLERANCE THEN 1 ELSE 0)
                   + (IF bl > PIXEL_TOLERANCE THEN 1 ELSE 0)
                   + (IF br > PIXEL_TOLERANCE THEN 1 ELSE 0)
    IN  different > 3

\* ------------------------------------------------------- frames_differ
\* The four pixels neighbourhoods_differ reads for row index t, offset xb.
BlockPixels(t, xb) ==
    { <<t, xb \div 3>>, <<t, (xb \div 3) + 1>>,
      <<t + 1, xb \div 3>>, <<t + 1, (xb \div 3) + 1>> }

\* The two nested loops of frames_differ.  w and h are the loop limits
\* (w in bytes), y and xb the loop variables, t the row prev_t / curr_t
\* point to, n and rd what the scan has examined so far.
RECURSIVE frames_differ_loop(_, _, _, _, _, _, _, _, _, _)
frames_differ_loop(fp, fc, w, h, border, y, xb, t, n, rd) ==
    IF ~(y < h) THEN [ret |-> FALSE, blocks |-> n, reads |-> rd]
    ELSE IF ~(xb < w)
    THEN frames_differ_loop(fp, fc, w, h, border, y + 1, border * 3, t + 1, n, rd)
    ELSE IF neighbourhoods_differ(<<fp, t>>, <<fp, t + 1>>,
                                  <<fc, t>>, <<fc, t + 1>>, xb)
    THEN [ret |-> TRUE, blocks |-> n + 1, reads |-> rd \cup BlockPixels(t, xb)]
    ELSE frames_differ_loop(fp, fc, w, h, border, y, xb + 3, t, n + 1,
                            rd \cup BlockPixels(t, xb))

\* frames_differ without the "w--; h--;" for the 2x2 lookahead
frames_differ_run_nolookahead(fp, fc, w, h) ==
    LET w1 == (w - 2 * options.border) * 3
        h1 == h - 2 * options.border
    IN  frames_differ_loop(fp, fc, w1, h1, options.border,
                           options.border, options.border * 3, 0, 0, {})

\* One execution of frames_differ: its result and what it examined.
frames_differ_run(fp, fc, w, h) ==
    LET w1 == ((w - 2 * options.border) - 1) * 3
        h1 == (h - 2 * options.border) - 1
    IN  frames_differ_loop(fp, fc, w1, h1, options.border,
                           options.border, options.border * 3, 0, 0, {})

frames_differ(fp, fc, w, h) == frames_differ_run(fp, fc, w, h).ret

\* ======================================================================
\* SpecNbr: one call of neighbourhoods_differ on a 2x2 block
\* ======================================================================
NbrVals == {Black, AtTol, OverTol, White}

\* A 2-row, 3-column frame whose block at column c0 has the given corners.
BlockFrame(c0, tl, tr, bl, br, bg) ==
    [r \in 0..1 |-> [c \in 0..2 |->
        IF c = c0 THEN (IF r = 0 THEN tl ELSE bl)
        ELSE IF c = c0 + 1 THEN (IF r = 0 THEN tr ELSE br)
        ELSE bg]]

\* No heap object of a run exists yet.
NothingAllocated ==
    [frame |-> "none", frame_curr |-> "none", frame_prev |-> "none",
     buffer_curr |-> "none", buffer_prev |-> "none"]

NoTimes == [s1 |-> 0, m1 |-> 0, h1 |-> 0, s2 |-> 0, m2 |-> 0, h2 |-> 0]

\* The variables of a run of excise_boring_bits, at rest.
RunIdle ==
    /\ fps = [num |-> 25, den |-> 1]
    /\ slack = 0 /\ frames = 0 /\ out_frames = 0 /\ skip = 0
    /\ i = 0 /\ res = FALSE /\ packets = 0 /\ stop = "none"
    /\ files = <<>> /\ report = <<>> /\ trace = <<>>
    /\ alloc = NothingAllocated

RunUnchanged ==
    UNCHANGED <<options, fps, width, height, slack, frames, out_frames, skip,
                frame_prev, frame_curr, i, res, alloc, packets, stop, files,
                report, trace>>

\* The variables of a call of get_times, at rest.
TimesIdle == t_f1 = 0 /\ t_f2 = 0 /\ times = NoTimes

InitNbr ==
    /\ pc = "nbr_call"
    /\ options = [border |-> 0, slack |-> 0, splash |-> 0, splash_path |-> FALSE]
    /\ width = 3 /\ height = 2
    /\ RunIdle
    /\ x \in {0, 3}
    /\ \E bg \in {Black, White} :
         /\ frame_prev = BlockFrame(x \div 3, bg, bg, bg, bg, bg)
         /\ \E tl \in NbrVals, tr \in NbrVals, bl \in NbrVals, br \in NbrVals :
              frame_curr = BlockFrame(x \div 3, tl, tr, bl, br, bg)
    /\ ret = FALSE /\ blocks = 0 /\ reads = {}
    /\ TimesIdle

CallNeighbourhoodsDiffer ==
    /\ pc = "nbr_call"
    /\ ret' = neighbourhoods_differ(<<frame_prev, 0>>, <<frame_prev, 1>>,
                                    <<frame_curr, 0>>, <<frame_curr, 1>>, x)
    /\ pc' = "nbr_ret"
    /\ RunUnchanged
    /\ UNCHANGED <<x, blocks, reads, t_f1, t_f2, times>>

NextNbr == CallNeighbourhoodsDiffer

SpecNbr == InitNbr /\ [][NextNbr]_vars

\* ======================================================================
\* SpecDiff: one call of frames_differ on two frames of the same size
\* ======================================================================
PatchVals == {AtTol, OverTol}

InitDiff ==
    /\ pc = "diff_call"
    /\ width \in 1..MaxDim
    /\ height \in { h \in 1..MaxDim : abs(h - width) <= 1 }
    /\ \E b \in 0..MaxBorder :
         options = [border |-> b, slack |-> 0, splash |-> 0,
                    splash_path |-> FALSE]
    /\ RunIdle
    /\ frame_prev = Blank(width, height)
    /\ \E r0 \in 0..(height - 1), c0 \in 0..(width - 1), v \in PatchVals :
         \E r1 \in r0..(height - 1), c1 \in c0..(width - 1) :
            frame_curr = Patch(width, height, r0, r1, c0, c1, v)
    /\ x = 0 /\ ret = FALSE /\ blocks = 0 /\ reads = {}
    /\ TimesIdle

CallFramesDiffer ==
    /\ pc = "diff_call"
    /\ \E run \in {frames_differ_run(frame_prev, frame_curr, width, height)} :
           /\ ret' = run.ret
           /\ blocks' = run.blocks
           /\ reads' = run.reads
    /\ pc' = "diff_ret"
    /\ RunUnchanged
    /\ UNCHANGED <<x, t_f1, t_f2, times>>

NextDiff == CallFramesDiffer

SpecDiff == InitDiff /\ [][NextDiff]_vars

\* ======================================================================
\* Spec: one run of excise_boring_bits
\* ======================================================================
FrameDim == 3       \* width and height of the frames of a run

\* The pictures the decoder may deliver: an empty screen, the screen with
\* its two left columns changed, and the screen with only its left column
\* changed.  PicC differs from neither PicA nor PicB for frames_differ (no
\* 2x2 block changes in all four pixels), PicA and PicB differ.
PicA == Blank(FrameDim, FrameDim)
PicB == Patch(FrameDim, FrameDim, 0, FrameDim - 1, 0, 1, White)
PicC == Patch(FrameDim, FrameDim, 0, FrameDim - 1, 0, 0, White)
Pictures == {PicA, PicB, PicC}

SplashImage == <<"splash.png">>

SlackOptions == {0, 5, 8}       \* --slack, in cs
SplashOptions == {0, 7, 12}     \* --intro, in cs
FrameRates == {[num |-> 25, den |-> 1], [num |-> 30000, den |-> 1001]}

\* the loop of dump_splash running to i <= lim
lim_inclusive ==
    CDiv(options.splash * fps.num, SECOND_IN_CS * fps.den) + 1

\* int lim of dump_splash
lim == CDiv(options.splash * fps.num, SECOND_IN_CS * fps.den)

\* the slack option divided by SECOND_IN_CS before the multiplication
slack_frames_divide_first ==
    CDiv(CDiv(options.slack, SECOND_IN_CS) * fps.num, fps.den)

\* the initialiser of const int slack
slack_frames == CDiv(options.slack * fps.num, SECOND_IN_CS * fps.den)

\* The locals of excise_boring_bits as declared, before its first statement.
Init ==
    /\ options \in [border : {0}, slack : SlackOptions,
                    splash : SplashOptions, splash_path : BOOLEAN]
    /\ fps \in FrameRates
    /\ width = FrameDim /\ height = FrameDim
    /\ slack = slack_frames
    /\ frames = 0 /\ skip = 0 /\ res = FALSE
    /\ frame_prev = Uninit /\ frame_curr = Uninit
    /\ alloc = NothingAllocated
    /\ out_frames = 0
    /\ i = 0
    /\ pc = "alloc"
    /\ packets = 0 /\ stop = "none"
    /\ files = <<>> /\ report = <<>> /\ trace = <<>>
    /\ x = 0 /\ ret = FALSE /\ blocks = 0 /\ reads = {}
    /\ TimesIdle

TestUnchanged == UNCHANGED <<x, ret, blocks, reads, t_f1, t_f2, times>>
ConfigUnchanged == UNCHANGED <<options, fps, width, height, slack>>

\* ----------------------------------------------- allocating the buffers
AllocSites == {"frame", "frame_curr", "frame_prev", "buffer_curr", "buffer_prev"}

\* The label free: av_free of each AVFrame pointer that is not NULL.  The
\* pixel buffers are not freed.
FreeFrames(a) ==
    [n \in DOMAIN a |->
        IF n \in {"frame", "frame_curr", "frame_prev"} /\ a[n] = "held"
        THEN "freed" ELSE a[n]]

\* The heap after the allocations, when the sites in ok succeed: a failed
\* avcodec_alloc_frame jumps to free, a failed av_malloc goes unnoticed.
Allocated(ok) ==
    IF ~ok["frame"]
    THEN [NothingAllocated EXCEPT !.frame = "null"]
    ELSE IF ~ok["frame_curr"]
    THEN [NothingAllocated EXCEPT !.frame = "held", !.frame_curr = "null"]
    ELSE IF ~ok["frame_prev"]
    THEN [NothingAllocated EXCEPT !.frame = "held", !.frame_curr = "held",
                                  !.frame_prev = "null"]
    ELSE [frame |-> "held", frame_curr |-> "held", frame_prev |-> "held",
          buffer_curr |-> IF ok["buffer_curr"] THEN "held" ELSE "null",
          buffer_prev |-> IF ok["buffer_prev"] THEN "held" ELSE "null"]

\* Lines 356-398 up to the call of dump_splash: the allocations, then
\* out_frames = 0.
Allocate ==
    /\ pc = "alloc"
    /\ \E ok \in [AllocSites -> BOOLEAN] :
         IF ok["frame"] /\ ok["frame_curr"] /\ ok["frame_prev"]
         THEN /\ alloc' = Allocated(ok)
              /\ pc' = IF options.splash_path THEN "splash" ELSE "loop"
         ELSE /\ alloc' = FreeFrames(Allocated(ok))
              /\ pc' = "failed"
    /\ UNCHANGED <<i, out_frames, frames, skip, frame_prev, frame_curr, res,
                   packets, stop, files, report, trace>>
    /\ ConfigUnchanged /\ TestUnchanged

\* ---------------------------------------------------------- dump_splash
\* dump_splash returning lim, the number of slots asked for
dump_splash_return_lim == lim

\* return i
dump_splash_return == i

\* link(splash, path) succeeds: slot i exists, next i.
SplashLink ==
    /\ pc = "splash"
    /\ i < lim
    /\ files' = Append(files, [kind |-> "splash", index |-> i,
                                image |-> SplashImage])
    /\ i' = i + 1
    /\ UNCHANGED <<pc, out_frames, frames, skip, frame_prev, frame_curr, res,
                   alloc, packets, stop, report, trace>>
    /\ ConfigUnchanged /\ TestUnchanged

\* link(splash, path) < 0: "Could not copy splash image", break,
\* "Splash frames: i", return i.
SplashLinkFails ==
    /\ pc = "splash"
    /\ i < lim
    /\ out_frames' = dump_splash_return
    /\ pc' = "loop"
    /\ report' = report \o
            <<[kind |-> "splash_failed", f1 |-> i, f2 |-> i, times |-> NoTimes],
              [kind |-> "splash", f1 |-> 0, f2 |-> i, times |-> NoTimes]>>
    /\ UNCHANGED <<i, files, frames, skip, frame_prev, frame_curr, res,
                   alloc, packets, stop, trace>>
    /\ ConfigUnchanged /\ TestUnchanged

\* i reached lim: "Splash frames: i", return i.
SplashReturn ==
    /\ pc = "splash"
    /\ ~(i < lim)
    /\ out_frames' = dump_splash_return
    /\ pc' = "loop"
    /\ report' = Append(report, [kind |-> "splash", f1 |-> 0, f2 |-> i,
                                  times |-> NoTimes])
    /\ UNCHANGED <<i, files, frames, skip, frame_prev, frame_curr, res,
                   alloc, packets, stop, trace>>
    /\ ConfigUnchanged /\ TestUnchanged

\* ------------------------------------------------------ the packet loop
\* assert(f1 <= f2) at the top of get_times
get_times_assert(f1, f2) == f1 <= f2

\* What get_times stores through s1, m1, h1, s2, m2, h2 when its assertion
\* holds.  Both "if" tests look at *s1 only.
get_times(f1, f2, rate) ==
    LET s1a == CDiv(f1 * rate.den, rate.num)
        s2a == CDiv(f2 * rate.den, rate.num)
        hours == CDiv(s1a, 60 * 60) > 0
        h1 == IF hours THEN CDiv(s1a, 60 * 60) ELSE 0
        h2 == IF hours THEN CDiv(s2a, 60 * 60) ELSE 0
        s1b == s1a - h1 * (60 * 60)
        s2b == s2a - h2 * (60 * 60)
        minutes == CDiv(s1b, 60) > 0
        m1 == IF minutes THEN CDiv(s1b, 60) ELSE 0
        m2 == IF minutes THEN CDiv(s2b, 60) ELSE 0
    IN  [s1 |-> s1b - m1 * 60, m1 |-> m1, h1 |-> h1,
         s2 |-> s2b - m2 * 60, m2 |-> m2, h2 |-> h2]

\* The code after the loop: get_times(frames, out_frames), the totals,
\* res = true, the frees.  A failed assertion aborts the process before
\* the totals.
AfterLoop ==
    IF get_times_assert(frames, out_frames)
    THEN /\ report' = Append(report,
                    [kind |-> "totals", f1 |-> frames, f2 |-> out_frames,
                     times |-> get_times(frames, out_frames, fps)])
         /\ res' = TRUE
         /\ alloc' = FreeFrames(alloc)
         /\ pc' = "done"
    ELSE /\ report' = report
         /\ res' = res
         /\ alloc' = alloc
         /\ pc' = "aborted"

\* pkt.stream_index != stream_id: the packet is freed, next packet.
OtherStreamPacket ==
    /\ pc = "loop"
    /\ packets < MaxPackets
    /\ packets' = packets + 1
    /\ UNCHANGED <<pc, stop, i, out_frames, frames, skip, frame_prev, frame_curr,
                   res, alloc, files, report, trace>>
    /\ ConfigUnchanged /\ TestUnchanged

\* frames++ after the "if (got_frame)" block instead of inside it
frames_without_frame_counted == frames + 1

\* The frame count after a packet with got_frame = 0: frames++ is the last
\* statement inside the "if (got_frame)" block, which is skipped.
frames_without_frame == frames

\* A video packet the decoder produces no frame from (got_frame = 0).
NoFramePacket ==
    /\ pc = "loop"
    /\ packets < MaxPackets
    /\ packets' = packets + 1
    /\ frames' = frames_without_frame
    /\ UNCHANGED <<pc, stop, i, out_frames, skip, frame_prev, frame_curr,
                   res, alloc, files, report, trace>>
    /\ ConfigUnchanged /\ TestUnchanged

\* avcodec_decode_video2 returns < 0: break out of the loop.
DecodeFails ==
    /\ pc = "loop"
    /\ packets < MaxPackets
    /\ packets' = packets + 1
    /\ stop' = "error"
    /\ AfterLoop
    /\ UNCHANGED <<i, out_frames, frames, skip, frame_prev, frame_curr,
                   files, trace>>
    /\ ConfigUnchanged /\ TestUnchanged

\* av_read_frame returns < 0: the loop ends.
EndOfStream ==
    /\ pc = "loop"
    /\ stop' = "eof"
    /\ AfterLoop
    /\ UNCHANGED <<i, packets, out_frames, frames, skip, frame_prev,
                   frame_curr, files, trace>>
    /\ ConfigUnchanged /\ TestUnchanged

\* The retain/drop decision of one decoded frame, as the loop body takes it.
\* differs: the frame is the first one or frames_differ found a difference.
skip_range_due(differs) == differs /\ skip > slack

skip_range_f1 == frames - (skip - slack)

skip_range_f2 == frames

\* the different branch without its "skip = 0"
skip_reset_left_out == skip

\* "skip = 0" at the end of the different branch
skip_reset == 0

\* the loop body without its skip++
next_skip_stuck(differs) == IF differs THEN 0 ELSE skip

next_skip(differs) == IF differs THEN skip_reset ELSE skip + 1

\* the drop test with >= in place of >
write_frame_early_drop(differs) ==
    IF differs THEN TRUE ELSE ~(next_skip(differs) >= slack)

write_frame(differs) ==
    IF differs THEN TRUE ELSE ~(next_skip(differs) > slack)

\* the test "frames == 0" that keeps frames_differ off the first frame,
\* left out
is_first_frame_never == FALSE

is_first_frame == frames = 0

\* the frame pointers swapped on every frame
retained_after_swap_always(differs, converted) == converted

\* What frame_prev points to after the "if": the new frame when the
\* pointers were swapped, the retained one otherwise.
retained_after(differs, converted) ==
    IF differs THEN converted ELSE frame_prev

\* frames++ inside the "if (write_frame)" block
next_frames_if_written(written) == IF written THEN frames + 1 ELSE frames

next_frames(written) == frames + 1

\* out_frames++ outside the "if (write_frame)" block
next_out_frames_always(written) == out_frames + 1

next_out_frames(written) == IF written THEN out_frames + 1 ELSE out_frames

\* A video packet that decodes to the picture pic (got_frame = 1).
GotFrame(pic) ==
    /\ pc = "loop"
    /\ packets < MaxPackets
    /\ alloc.buffer_curr = "held"
    /\ packets' = packets + 1
    /\ LET \* sws_scale converts the decoded frame into frame_curr
           converted == pic
           compared == ~is_first_frame
           differs == is_first_frame
                      \/ frames_differ(frame_prev, converted, width, height)
           written == write_frame(differs)
           \* the swap of the two frame pointers
           prev1 == retained_after(differs, converted)
           curr1 == IF differs THEN frame_prev ELSE converted
       IN  /\ frame_prev' = prev1
           /\ frame_curr' = curr1
           /\ alloc' = IF differs
                       THEN [alloc EXCEPT !.buffer_curr = alloc.buffer_prev,
                                          !.buffer_prev = alloc.buffer_curr]
                       ELSE alloc
           /\ skip' = next_skip(differs)
           /\ frames' = next_frames(written)
           /\ out_frames' = next_out_frames(written)
           /\ files' = IF written
                       THEN Append(files, [kind |-> "frame",
                                           index |-> out_frames,
                                           image |-> prev1])
                       ELSE files
           /\ trace' = Append(trace, [differs |-> differs, written |-> written,
                                      compared |-> compared,
                                      image |-> converted,
                                      against |-> frame_prev,
                                      reported |-> skip_range_due(differs),
                                      skip |-> next_skip(differs),
                                      out |-> next_out_frames(written)])
           /\ IF skip_range_due(differs)
              THEN IF get_times_assert(skip_range_f1, skip_range_f2)
                   THEN /\ report' = Append(report,
                                [kind |-> "skip", f1 |-> skip_range_f1,
                                 f2 |-> skip_range_f2,
                                 times |-> get_times(skip_range_f1,
                                                     skip_range_f2, fps)])
                        /\ pc' = pc
                   ELSE /\ report' = report
                        /\ pc' = "aborted"
              ELSE /\ report' = report
                   /\ pc' = pc
    /\ UNCHANGED <<i, res, stop>>
    /\ ConfigUnchanged /\ TestUnchanged

\* A video packet that decodes to a frame while the pixel buffer of
\* frame_curr is NULL (its av_malloc failed).  Using the null buffer is
\* undefined: sws_scale writes through it, or rejects it and leaves the
\* first access to the next reader of the frame (image_write_png for the
\* first frame, frames_differ afterwards).  Whichever call faults, the
\* process dies before the frame is written or counted.
GotFrameNullBuffer ==
    /\ pc = "loop"
    /\ packets < MaxPackets
    /\ alloc.buffer_curr = "null"
    /\ packets' = packets + 1
    /\ pc' = "crashed"
    /\ stop' \in {"sws_scale",
                 IF frames = 0 THEN "image_write_png" ELSE "frames_differ"}
    /\ UNCHANGED <<i, res, out_frames, frames, skip, frame_prev,
                   frame_curr, alloc, files, report, trace>>
    /\ ConfigUnchanged /\ TestUnchanged

Next ==
    \/ Allocate
    \/ SplashLink
    \/ SplashLinkFails
    \/ SplashReturn
    \/ OtherStreamPacket
    \/ NoFramePacket
    \/ DecodeFails
    \/ EndOfStream
    \/ \E pic \in Pictures : GotFrame(pic)
    \/ GotFrameNullBuffer

Spec == Init /\ [][Next]_vars

TypeOK ==
    /\ pc \in {"alloc", "failed", "splash", "loop", "done", "aborted",
               "crashed"}
    /\ frames \in 0..MaxPackets /\ skip \in 0..MaxPackets
    /\ out_frames \in Nat /\ slack \in Nat
    /\ Len(trace) = frames
    /\ \A n \in AllocSites : alloc[n] \in {"none", "held", "null", "freed"}

\* ======================================================================
\* SpecTimes: one call of get_times
\* Frame indices around the second, minute and hour boundaries of the two
\* frame rates.
TimeIndices ==
    {0, 1, 24, 25, 1499, 1500, 1501, 1799, 1800, 89999, 90000, 91500,
     107892, 180000}

InitTimes ==
    /\ pc = "times_call"
    /\ options = [border |-> 0, slack |-> 0, splash |-> 0, splash_path |-> FALSE]
    /\ width = 1 /\ height = 1
    /\ fps \in FrameRates
    /\ slack = 0 /\ frames = 0 /\ out_frames = 0 /\ skip = 0
    /\ i = 0 /\ res = FALSE /\ packets = 0 /\ stop = "none"
    /\ files = <<>> /\ report = <<>> /\ trace = <<>>
    /\ alloc = NothingAllocated
    /\ frame_prev = Uninit /\ frame_curr = Uninit
    /\ x = 0 /\ ret = FALSE /\ blocks = 0 /\ reads = {}
    /\ t_f1 \in TimeIndices /\ t_f2 \in TimeIndices
    /\ times = NoTimes

CallGetTimes ==
    /\ pc = "times_call"
    /\ IF get_times_assert(t_f1, t_f2)
       THEN /\ times' = get_times(t_f1, t_f2, fps)
            /\ pc' = "times_ret"
       ELSE /\ times' = times
            /\ pc' = "aborted"
    /\ RunUnchanged
    /\ UNCHANGED <<x, ret, blocks, reads, t_f1, t_f2>>

NextTimes == CallGetTimes

SpecTimes == InitTimes /\ [][NextTimes]_vars

\* ------------------------------------------------ vocabulary of the claims
\* Pixel (r, c) is fewer than border pixels from an edge of the frame.
InBorder(r, c) ==
    \/ r < options.border \/ r >= height - options.border
    \/ c < options.border \/ c >= width - options.border

Positions == (0..(height - 1)) \X (0..(width - 1))

PixelsDiffer(p) == frame_prev[p[1]][p[2]] # frame_curr[p[1]][p[2]]

PixelOverTolerance(p) ==
    pixel_difference(frame_prev[p[1]][p[2]], frame_curr[p[1]][p[2]])
        > PIXEL_TOLERANCE

\* The region has no pixel: border too large for the frame.
RegionDegenerate ==
    width - 2 * options.border <= 0 \/ height - 2 * options.border <= 0

\* C2: two same-sized frames whose pixels differ only inside the border
\* margin are reported as not different by frames_differ.
C2_BorderExcluded ==
    (pc = "diff_ret" /\ \A p \in Positions : PixelsDiffer(p) => InBorder(p[1], p[2]))
        => ret = FALSE

\* C3: with 2*border + 2 < min(width, height), if every pixel of the
\* border-excluded region differs by more than the tolerance, frames_differ
\* returns true after examining exactly one block.
C3_DetectsAtFirstBlock ==
    (/\ pc = "diff_ret"
     /\ 2 * options.border + 2 < Min(width, height)
     /\ \A p \in Positions : ~InBorder(p[1], p[2]) => PixelOverTolerance(p))
        => (ret = TRUE /\ blocks = 1)

\* C7: every pixel frames_differ reads lies inside the frame, and with a
\* border-excluded region of zero or negative extent it returns false
\* without reading any pixel.
C7_ReadsInBounds ==
    pc = "diff_ret" =>
        /\ \A p \in reads : p[1] \in 0..(height - 1) /\ p[2] \in 0..(width - 1)
        /\ RegionDegenerate => (ret = FALSE /\ reads = {})

\* a call on a degenerate region (border too large for the frame) whose
\* frames do differ by more than the tolerance
C7_Witness ==
    /\ pc = "diff_ret"
    /\ RegionDegenerate
    /\ \E p \in Positions : PixelOverTolerance(p)

NSplash == Cardinality({ k \in DOMAIN files : files[k].kind = "splash" })

IsFrameFile(f) == f.kind = "frame"

MainFiles == SelectSeq(files, IsFrameFile)

Differs(t) == t.differs

DifferentFrames == SelectSeq(trace, Differs)

\* Source frame a (1-based position in trace) was classified different and
\* is followed by exactly K frames classified same, up to the next different
\* frame or the last frame processed so far.
RunOf(a, K) ==
    /\ a \in DOMAIN trace /\ a + K <= Len(trace)
    /\ trace[a].differs
    /\ \A j \in 1..K : ~trace[a + j].differs
    /\ a + K = Len(trace) \/ trace[a + K + 1].differs

\* The file the processing of source frame j wrote.
FileOf(j) == files[trace[j].out]

\* C1: for a run of K > slack same frames after a different frame, the
\* different frame and the first slack same frames are written, each with
\* the image of the retained (different) frame, and the last K - slack
\* frames are dropped, leaving the output index as it was.
C1_SlackRun ==
    \A a \in DOMAIN trace, K \in 1..Len(trace) :
        (RunOf(a, K) /\ K > slack) =>
            /\ \A j \in 0..slack :
                    trace[a + j].written /\ FileOf(a + j).image = trace[a].image
            /\ \A j \in (slack + 1)..K :
                    ~trace[a + j].written /\ trace[a + j].out = trace[a + j - 1].out
            /\ Cardinality({ j \in 0..K : trace[a + j].written }) = slack + 1
            /\ Cardinality({ j \in 0..K : ~trace[a + j].written }) = K - slack

\* a run longer than a slack of at least one frame, ended by a new frame
C1_Witness ==
    /\ slack >= 1
    /\ \E a \in DOMAIN trace, K \in 1..Len(trace) :
          RunOf(a, K) /\ K >= slack + 2 /\ a + K < Len(trace)

\* The maximal spans lo..hi of dropped source frames (0-based indices, as
\* the frames counter numbers them) that a later frame follows.
DroppedSpans ==
    { <<lo, hi>> \in (0..Len(trace)) \X (0..Len(trace)) :
        /\ lo <= hi /\ hi + 2 <= Len(trace)
        /\ \A j \in lo..hi : ~trace[j + 1].written
        /\ lo = 0 \/ trace[lo].written
        /\ trace[hi + 2].written }

SkipReports ==
    { <<report[k].f1, report[k].f2>> : k \in { m \in DOMAIN report :
                                                 report[m].kind = "skip" } }

\* C5: a skip range is reported on a different frame exactly when the skip
\* counter exceeded slack, and the reported range f1..f2 is the span of
\* dropped frames: f1 the first dropped index, f2 the last.
C5_SkipRangeIsDroppedSpan == SkipReports = DroppedSpans

\* C4: when the stream has ended with dropped frames at its tail and the
\* totals are reported, the skip range of that tail was reported before them.
C4_FinalSkipRangeReported ==
    (pc = "done" /\ stop = "eof" /\ skip > slack) =>
        \E k \in DOMAIN report :
            /\ report[k].kind = "skip"
            /\ report[k].f1 = frames - (skip - slack)
            /\ \A m \in DOMAIN report : report[m].kind = "totals" => k < m

\* dump_splash has returned, or was not called for want of a splash image.
SplashOver == pc \in {"loop", "done", "aborted", "crashed"}

\* floor(D * F_num / (100 * F_den))
SplashSlots == (options.splash * fps.num) \div (100 * fps.den)

SplashFailed == \E k \in DOMAIN report : report[k].kind = "splash_failed"

FirstMainIndexIs(n) == MainFiles # <<>> => MainFiles[1].index = n

\* C6 as stated: with a splash image exactly floor(D * F_num / (100 * F_den))
\* slots 0..N-1 are emitted and the first main-loop emission has index N;
\* without one the first main-loop emission has index 0.
C6_SplashCountExact ==
    SplashOver =>
        IF options.splash_path
        THEN /\ NSplash = SplashSlots
             /\ \A k \in 1..NSplash : files[k].kind = "splash" /\ files[k].index = k - 1
             /\ FirstMainIndexIs(SplashSlots)
        ELSE NSplash = 0 /\ FirstMainIndexIs(0)

\* C6 amended: the count is floor(D * F_num / (100 * F_den)) when every
\* link succeeds and smaller when one fails; the slots are 0..n-1 and the
\* first main-loop emission has index n, the number of slots created.
C6_SplashCount ==
    SplashOver =>
        IF options.splash_path
        THEN /\ ~SplashFailed => NSplash = SplashSlots
             /\ SplashFailed => NSplash < SplashSlots
             /\ \A k \in 1..NSplash : files[k].kind = "splash" /\ files[k].index = k - 1
             /\ FirstMainIndexIs(NSplash)
        ELSE NSplash = 0 /\ FirstMainIndexIs(0)

\* all slots of a splash of 7 cs at 30000/1001 fps (2.09 frames) created,
\* and a frame written after them
C6_Witness ==
    /\ options.splash_path /\ ~SplashFailed /\ pc = "loop"
    /\ fps.den = 1001 /\ options.splash = 7
    /\ NSplash = 2
    /\ MainFiles # <<>>

\* C8: the output index grows by one with every written frame and not at
\* all with a dropped one, so the files are numbered 0, 1, 2, ... without
\* gap or repeat, the main loop continuing after the splash slots.
C8_Sequencer ==
    SplashOver =>
        /\ out_frames = Len(files)
        /\ \A k \in DOMAIN files :
              /\ files[k].index = k - 1
              /\ files[k].kind = "splash" <=> k <= NSplash
        /\ \A j \in DOMAIN trace :
              LET before == IF j = 1 THEN NSplash ELSE trace[j - 1].out
              IN  trace[j].out = before + (IF trace[j].written THEN 1 ELSE 0)

\* splash slots, then a written frame, a dropped frame and a written frame
C8_Witness ==
    /\ NSplash >= 1
    /\ \E j \in DOMAIN trace :
          /\ j + 2 <= Len(trace)
          /\ trace[j].written /\ ~trace[j + 1].written /\ trace[j + 2].written

\* C9: with a slack of 0 frames a frame is written exactly when it is
\* classified different (the first frame included), so the written images
\* are those of the different frames, in order.
C9_SlackZero ==
    slack = 0 =>
        /\ \A j \in DOMAIN trace : trace[j].written <=> trace[j].differs
        /\ trace # <<>> => trace[1].differs
        /\ Len(MainFiles) = Len(DifferentFrames)
        /\ \A k \in DOMAIN MainFiles : MainFiles[k].image = DifferentFrames[k].image

\* slack 0, a same frame dropped between two written ones
C9_Witness ==
    /\ slack = 0
    /\ \E j \in DOMAIN trace :
          /\ j + 2 <= Len(trace)
          /\ trace[j].differs /\ ~trace[j + 1].differs /\ trace[j + 2].differs
          /\ ~trace[j + 1].written

\* ------------------------------------------------- failures during a run
\* The totals line "Frames f1 --> f2" is the last thing reported.
TotalsReported(f1, f2) ==
    /\ report # <<>>
    /\ report[Len(report)].kind = "totals"
    /\ report[Len(report)].f1 = f1
    /\ report[Len(report)].f2 = f2

\* C11: once decoding has failed, the run has reported the totals with the
\* frames processed so far and has returned true, the written files being
\* those of the frames processed before the failure.
C11_DecodeFailureReportsTotals ==
    stop = "error" =>
        /\ pc = "done" /\ res = TRUE
        /\ TotalsReported(frames, out_frames)
        /\ Len(trace) = frames
        /\ Len(MainFiles) = Cardinality({ j \in DOMAIN trace : trace[j].written })

AllocationFailed == \E n \in AllocSites : alloc[n] = "null"

RunEnded == pc \in {"failed", "done", "aborted", "crashed"}

\* C12: when an allocation has failed nothing is ever emitted, and the run
\* ends by returning false with nothing that was allocated still held.
C12_AllocationFailureIsFatal ==
    AllocationFailed =>
        /\ files = <<>>
        /\ RunEnded =>
              /\ pc = "failed" /\ res = FALSE
              /\ \A n \in AllocSites : alloc[n] # "held"

\* The source frame j (1-based position in trace) of the most recent frame
\* classified different at or before frame j; the first frame always is.
LastDifferent(j) ==
    CHOOSE k \in 1..j :
        trace[k].differs /\ \A m \in (k + 1)..j : ~trace[m].differs

\* The number of frames classified same since then, frame j included.
SameCount(j) == j - LastDifferent(j)

\* Whether frame j is kept, from the classifications and the slack alone.
Retain(j) == trace[j].differs \/ SameCount(j) <= slack

SecondsAt(index) == (index * fps.den) \div fps.num

\* The hours, minutes and seconds of a number of seconds.
Clock(secs) ==
    [h |-> secs \div 3600, m |-> (secs % 3600) \div 60, s |-> secs % 60]

\* C14: get_times gives each index its own clock reading: hours * 3600 +
\* minutes * 60 + seconds is floor(index * den / num) with minutes and
\* seconds below 60, which leaves one triple per index, whatever the other
\* index is.
C14_TimesDecompose ==
    pc = "times_ret" =>
        /\ [h |-> times.h1, m |-> times.m1, s |-> times.s1]
               = Clock(SecondsAt(t_f1))
        /\ [h |-> times.h2, m |-> times.m2, s |-> times.s2]
               = Clock(SecondsAt(t_f2))

\* ---------------------------------------------- the state of the loop
\* C15: the first decoded frame is classified different without a call of
\* frames_differ, is written with its own image as the first file of the
\* main loop, becomes the retained frame, and leaves skip at 0 with no
\* skip range reported.
C15_FirstFrame ==
    trace # <<>> =>
        /\ trace[1].differs /\ ~trace[1].compared
        /\ trace[1].written /\ trace[1].out = NSplash + 1
        /\ MainFiles # <<>> /\ MainFiles[1].image = trace[1].image
        /\ trace[1].skip = 0 /\ ~trace[1].reported
        /\ Len(trace) = 1 =>
              /\ frame_prev = trace[1].image
              /\ skip = 0
              /\ \A k \in DOMAIN report : report[k].kind # "skip"
        /\ Len(trace) >= 2 => trace[2].against = trace[1].image

\* a first frame that is not blank, with a positive slack, after a splash
\* slot
C15_Witness ==
    /\ Len(trace) = 1 /\ pc = "loop"
    /\ trace[1].image # Blank(width, height)
    /\ slack >= 1 /\ NSplash >= 1
    /\ frames = 1 /\ out_frames = NSplash + 1

\* C16: the slack in frames is floor(slack_cs * num / (100 * den)) all
\* through the run, and a run of same frames that lasts no longer than the
\* slack time is written in full, each frame with the retained image.
C16_SlackConversion ==
    pc \notin {"alloc", "failed"} =>
        /\ slack = (options.slack * fps.num) \div (100 * fps.den)
        /\ \A a \in DOMAIN trace, K \in 1..Len(trace) :
              (RunOf(a, K) /\ K * 100 * fps.den <= options.slack * fps.num) =>
                  \A j \in 0..K :
                      /\ trace[a + j].written
                      /\ FileOf(a + j).image = trace[a].image

\* a slack of 8 cs at 30000/1001 fps (2.39 frames): a run of two same
\* frames, ended by a new frame, written in full
C16_Witness ==
    /\ options.slack = 8 /\ fps.den = 1001 /\ slack = 2
    /\ \E a \in DOMAIN trace :
          /\ RunOf(a, 2) /\ a + 2 < Len(trace)
          /\ trace[a + 1].written /\ trace[a + 2].written

\* C17: no call of get_times fails its assertion, and a run that has read
\* its stream to the end has reported the totals and returned true.
C17_GetTimesPrecondition ==
    /\ pc # "aborted"
    /\ stop = "eof" =>
          /\ pc = "done" /\ res = TRUE
          /\ TotalsReported(frames, out_frames)

\* The image the retained slot holds after frame j: that of the most
\* recent frame classified different.
Retained(j) == trace[LastDifferent(j)].image

\* C18: frame_prev holds the image of the most recent different frame and
\* frame_curr the other slot's; every frame after the first is compared
\* against the retained image, every written file carries the retained
\* image, and a same frame leaves the retained slot as it was.
C18_RetainedSlot ==
    /\ trace # <<>> =>
          /\ frame_prev = Retained(Len(trace))
          /\ frame_curr = IF trace[Len(trace)].differs
                          THEN trace[Len(trace)].against
                          ELSE trace[Len(trace)].image
    /\ \A j \in DOMAIN trace :
          /\ j > 1 => trace[j].against = Retained(j - 1)
          /\ trace[j].differs <=>
                \/ j = 1
                \/ frames_differ(Retained(j - 1), trace[j].image, width, height)
          /\ trace[j].written => FileOf(j).image = Retained(j)
          /\ ~trace[j].differs => Retained(j) = Retained(j - 1)

\* a same frame whose image is not the retained one, written with the
\* retained image, and after it a frame that differs from the retained
\* image but not from its predecessor
C18_Witness ==
    \E j \in DOMAIN trace :
        /\ j >= 3
        /\ ~trace[j - 1].differs /\ trace[j - 1].written
        /\ trace[j - 1].image # Retained(j - 1)
        /\ FileOf(j - 1).image = Retained(j - 1)
        /\ trace[j].differs
        /\ ~frames_differ(trace[j - 1].image, trace[j].image, width, height)

\* C19: skip is the number of frames classified same since the most recent
\* different frame: 0 before the first frame and after a different frame,
\* one more after every same frame, written or dropped.
C19_SkipCounter ==
    /\ skip >= 0
    /\ skip = IF trace = <<>> THEN 0 ELSE SameCount(Len(trace))
    /\ \A j \in DOMAIN trace :
          /\ trace[j].skip = SameCount(j)
          /\ trace[j].differs => trace[j].skip = 0
          /\ ~trace[j].differs => trace[j].skip = trace[j - 1].skip + 1

\* skip counted through a written and a dropped same frame, then reset by
\* a different frame
C19_Witness ==
    /\ slack = 1 /\ skip = 0
    /\ \E j \in DOMAIN trace :
          /\ j + 2 = Len(trace)
          /\ trace[j].skip = 1 /\ trace[j].written
          /\ trace[j + 1].skip = 2 /\ ~trace[j + 1].written
          /\ trace[j + 2].differs

Dropped == { j \in DOMAIN trace : ~trace[j].written }

\* C20: out_frames is the splash slots plus the frames read minus the
\* frames dropped, a frame being dropped exactly when it is classified same
\* with skip, after its increment, above slack; so the main loop has
\* written at most frames files, and at least one once a frame is read.
C20_CountConservation ==
    SplashOver =>
        /\ frames = Len(trace)
        /\ out_frames = NSplash + frames - Cardinality(Dropped)
        /\ \A j \in DOMAIN trace :
              j \in Dropped <=> (~trace[j].differs /\ trace[j].skip > slack)
        /\ Len(MainFiles) = out_frames - NSplash
        /\ out_frames - NSplash <= frames
        /\ frames >= 1 => out_frames - NSplash >= 1

\* the end of a run with two splash slots, two dropped frames and a frame
\* written after them
C20_Witness ==
    /\ pc = "done" /\ NSplash = 2
    /\ Cardinality(Dropped) = 2
    /\ \E j \in Dropped : j < Len(trace) /\ trace[Len(trace)].written
    /\ out_frames = frames

\* ------------------------------------------ packets that carry no frame
\* The loop has read a packet, processed no frame and goes on: the packet
\* was of another stream, or the decoder produced no frame from it.
NonFramePacketStep ==
    /\ pc = "loop" /\ pc' = "loop"
    /\ packets' = packets + 1
    /\ trace' = trace

\* One frame of the stream handled as the loop body prescribes, from the
\* state r the frames before it left.
ReferenceStep(r, image) ==
    LET differs == r.frames = 0
                   \/ frames_differ(r.retained, image, width, height)
        count == IF differs THEN 0 ELSE r.skip + 1
        written == differs \/ count <= slack
        retained == IF differs THEN image ELSE r.retained
    IN  [retained |-> retained,
         skip |-> count,
         frames |-> r.frames + 1,
         written |-> Append(r.written, written),
         images |-> IF written THEN Append(r.images, retained) ELSE r.images]

\* The outcome of the first n frames read so far when nothing but these
\* frames is in the stream (a set of one element).
RECURSIVE ReferenceRun(_)
ReferenceRun(n) ==
    IF n = 0
    THEN {[retained |-> Uninit, skip |-> 0, frames |-> 0, written |-> <<>>,
           images |-> <<>>]}
    ELSE { ReferenceStep(r, trace[n].image) : r \in ReferenceRun(n - 1) }

\* However many packets without a frame were read among the frames, the
\* loop is where the frames alone would have brought it.
AsWithoutOtherPackets ==
    (SplashOver /\ packets > frames) =>
        \A r \in ReferenceRun(Len(trace)) :
            /\ frames = r.frames
            /\ skip = r.skip
            /\ trace # <<>> => frame_prev = r.retained
            /\ out_frames = NSplash + Len(r.images)
            /\ \A j \in DOMAIN trace : trace[j].written = r.written[j]
            /\ Len(MainFiles) = Len(r.images)
            /\ \A k \in DOMAIN MainFiles : MainFiles[k].image = r.images[k]

\* C21: a packet of another stream, or one the decoder produces no frame
\* from, changes none of skip, frames, out_frames, the two frame slots and
\* the written files; and a stream with such packets among its frames has
\* the same frames written and dropped as the frames alone.
C21_NonFramePackets ==
    /\ [][NonFramePacketStep =>
            UNCHANGED <<skip, frames, out_frames, frame_prev, frame_curr,
                        files, report>>]_vars
    /\ []AsWithoutOtherPackets

\* two packets without a frame read among four frames, of which one was
\* written within the slack, one dropped and one written after the drop
C21_Witness ==
    /\ pc = "loop" /\ Len(trace) = 4 /\ packets >= Len(trace) + 1
    /\ slack = 1
    /\ ~trace[2].differs /\ trace[2].written
    /\ ~trace[3].written
    /\ trace[4].differs

====
